---------------------------- MODULE Spec2Model ----------------------------
(***************************************************************************)
(* Dam load computation (damload): the Dam object of dam_cls.py, its       *)
(* cal_load entry point and the pressure formulas of side_prs.py and       *)
(* buoyancy.py.                                                            *)
(*                                                                         *)
(* Numbers are fixed point integers.  Lengths are whole length units.      *)
(* Unit weights (w, w0, w_mud) and the buoyancy `offset' are in tenths,    *)
(* the seismic coefficient k in hundredths, ce in tenths, the coefficients *)
(* 0.3333 and 0.2 and the Zanger coefficient cm in 1/10000.  Hence         *)
(*   a static pressure   is in 1/10      kN/m2,                            *)
(*   a buoyancy pressure is in 1/1000000 kN/m2 (exact, no rounding),       *)
(*   a dynamic pressure  is in 1/1000    kN/m2 (rounded down).             *)
(* A division that numpy does in floating point is a floor division here.  *)
(***************************************************************************)
EXTENDS Integers, Sequences, FiniteSets

VARIABLES
    args,        \* the arguments Dam(...) is constructed with
    dam,         \* the Dam object: its fields, once constructed
    load_names,  \* the load_names argument of the last cal_load call
    raised,      \* the exception the last cal_load call ended with, or NoError
    calls,       \* the number of cal_load calls made
    buo_args,    \* the arguments buoyancy() is called with on its own
    f            \* the interpolant that call returned

vars == <<args, dam, load_names, raised, calls, buo_args, f>>

-----------------------------------------------------------------------------
(* Values *)

\* Python's None, for a field that holds an array or an optional number:
\* None is the empty tuple and a present number a is <<a>>.
None == <<>>

Some(a) == <<a>>

\* No exception: the call returned normally.
NoError == "None"

\* The message of the ValueError cal_load raises for an unknown load name.
LoadNamesError ==
    "ValueError: 'load_names' should be a str list which contains 'Dynamic', 'Static', 'Mud' or 'Buoyancy'."

\* scipy's interp1d called outside its range (bounds_error is on by default).
RangeError == "ValueError: A value in x_new is outside the interpolation range."

\* Python's error for a call with a keyword the function does not have.
MudTypeError == "TypeError: mud() got an unexpected keyword argument 'mesh_size'"

\* The float NaN that np.sqrt returns for a negative argument (it warns, it
\* does not raise).  No pressure of the model reaches this value.
NaN == -2000000000

-----------------------------------------------------------------------------
(* Bounds of the model *)

\* cal_load is called at most MaxCalls times on one Dam,
MaxCalls == 2

\* with num in 2..MaxNum samples.
MaxNum == 3

\* buoyancy() is called with water depths in 0..MaxHead,
MaxHead == 3

\* and base lengths in 1..MaxLength.
MaxLength == 4

-----------------------------------------------------------------------------
(* Sequences *)

Last(s) == s[Len(s)]

Min(a, b) == IF a <= b THEN a ELSE b

Abs(a) == IF a < 0 THEN 0 - a ELSE a

\* np.diff: the differences of adjacent elements.
diff(s) == [i \in 1..(Len(s) - 1) |-> s[i + 1] - s[i]]

\* np.linspace(a, b, n) for n >= 2: n evenly spaced samples from a to b, both
\* included.
linspace(a, b, n) == [i \in 1..n |-> a + ((i - 1) * (b - a)) \div (n - 1)]

\* np.argsort(x, kind="mergesort"): the indices of x in ascending order of
\* value, equal values in their original order.
RECURSIVE InsertIndex(_, _, _)
InsertIndex(x, sorted, i) ==
    IF sorted = <<>> THEN <<i>>
    ELSE IF x[Last(sorted)] <= x[i] THEN Append(sorted, i)
    ELSE Append(InsertIndex(x, SubSeq(sorted, 1, Len(sorted) - 1), i), Last(sorted))

RECURSIVE argsortUpTo(_, _)
argsortUpTo(x, n) ==
    IF n = 0 THEN <<>> ELSE InsertIndex(x, argsortUpTo(x, n - 1), n)

argsort(x) == argsortUpTo(x, Len(x))

\* The largest r with r * r <= n (n >= 0), by bisection.
RECURSIVE ISqrtIn(_, _, _)
ISqrtIn(n, lo, hi) ==
    IF lo >= hi THEN lo
    ELSE LET mid == (lo + hi + 1) \div 2
         IN IF mid * mid <= n THEN ISqrtIn(n, mid, hi) ELSE ISqrtIn(n, lo, mid - 1)

ISqrt(n) == ISqrtIn(n, 0, Min(n, 46340))

-----------------------------------------------------------------------------
(* scipy.interpolate.interp1d, kind linear, bounds_error on *)

\* interp1d(x=x, y=y): the table sorted by x (assume_sorted is off).
interp1d(x, y) ==
    LET ind == argsort(x)
    IN [x |-> [i \in 1..Len(x) |-> x[ind[i]]],
        y |-> [i \in 1..Len(x) |-> y[ind[i]]]]

\* Whether calling the interpolant at v raises: v is below or above the table.
OutOfBounds(g, v) == v < g.x[1] \/ v > Last(g.x)

\* The interpolant called at one in-range v: numpy's interp on the sorted
\* table, between the last control point at or before v and the next one.
interp_call(g, v) ==
    LET j == CHOOSE i \in 1..Len(g.x) :
                 /\ g.x[i] <= v
                 /\ \A m \in (i + 1)..Len(g.x) : g.x[m] > v
    IN IF j = Len(g.x) THEN g.y[j]
       ELSE g.y[j] + ((v - g.x[j]) * (g.y[j + 1] - g.y[j])) \div (g.x[j + 1] - g.x[j])

-----------------------------------------------------------------------------
(* Trigonometry, in whole degrees *)

\* tan(d degrees) * 10000 for d = 0..89, at index d + 1.
TanTable ==
    <<0, 175, 349, 524, 699, 875, 1051, 1228, 1405, 1584,
      1763, 1944, 2126, 2309, 2493, 2679, 2867, 3057, 3249, 3443,
      3640, 3839, 4040, 4245, 4452, 4663, 4877, 5095, 5317, 5543,
      5774, 6009, 6249, 6494, 6745, 7002, 7265, 7536, 7813, 8098,
      8391, 8693, 9004, 9325, 9657, 10000, 10355, 10724, 11106, 11504,
      11918, 12349, 12799, 13270, 13764, 14281, 14826, 15399, 16003, 16643,
      17321, 18040, 18807, 19626, 20503, 21445, 22460, 23559, 24751, 26051,
      27475, 29042, 30777, 32709, 34874, 37321, 40108, 43315, 47046, 51446,
      56713, 63138, 71154, 81443, 95144, 114301, 143007, 190811, 286363, 572900>>

\* sin(d degrees) * 10000 for d = 0..90, at index d + 1.
SinTable ==
    <<0, 175, 349, 523, 698, 872, 1045, 1219, 1392, 1564,
      1736, 1908, 2079, 2250, 2419, 2588, 2756, 2924, 3090, 3256,
      3420, 3584, 3746, 3907, 4067, 4226, 4384, 4540, 4695, 4848,
      5000, 5150, 5299, 5446, 5592, 5736, 5878, 6018, 6157, 6293,
      6428, 6561, 6691, 6820, 6947, 7071, 7193, 7314, 7431, 7547,
      7660, 7771, 7880, 7986, 8090, 8192, 8290, 8387, 8480, 8572,
      8660, 8746, 8829, 8910, 8988, 9063, 9135, 9205, 9272, 9336,
      9397, 9455, 9511, 9563, 9613, 9659, 9703, 9744, 9781, 9816,
      9848, 9877, 9903, 9925, 9945, 9962, 9976, 9986, 9994, 9998,
      10000>>

\* np.rad2deg(np.arctan(dx / dy)), rounded down to a whole degree, for dy # 0.
ArcTanDeg(dx, dy) ==
    LET sx == IF dy < 0 THEN 0 - dx ELSE dx
        sy == Abs(dy)
    IN IF sx >= 0
       THEN Cardinality({d \in 1..89 : TanTable[d + 1] * sy <= sx * 10000})
       ELSE 0 - Cardinality({d \in 0..89 : TanTable[d + 1] * sy < (0 - sx) * 10000})

\* np.sin and np.cos of an angle in whole degrees within -90..90, * 10000.
SinDeg(a) == IF a < 0 THEN 0 - SinTable[1 - a] ELSE SinTable[a + 1]

CosDeg(a) == SinTable[91 - Abs(a)]

-----------------------------------------------------------------------------
(* side_prs.py *)

\* A function's result: the exception it raised (or NoError) and its value.
Returned(v) == [raised |-> NoError, value |-> v]

Raised(e) == [raised |-> e, value |-> None]

\* cal_slant: the slope angle of the face at each sample, in degrees from the
\* vertical; the last interval's angle is repeated for the last sample.  A zero
\* vertical run is replaced by 1e-18, which makes the angle 90, -90 or (for a
\* zero horizontal run too) 0.
cal_slant(x, y) ==
    LET diff_y == diff(y)
        diff_x == diff(x)
        slant  == [i \in 1..Len(diff_y) |->
                      IF diff_y[i] = 0
                      THEN (IF diff_x[i] > 0 THEN 90
                            ELSE IF diff_x[i] < 0 THEN 0 - 90 ELSE 0)
                      ELSE ArcTanDeg(diff_x[i], diff_y[i])]
    IN Append(slant, Last(slant))

\* The Zanger slope-angle / Cm curve, Cm in 1/10000.
expr_slant == <<90, 80, 70, 60, 50, 40, 30, 20, 10, 0>>

expr_cm == <<250, 1250, 2250, 3100, 4000, 4800, 5500, 6200, 6700, 7200>>

zanger_cm == interp1d(expr_slant, expr_cm)

\* zanger, for one sample: cm * shape * w * k * h with r = dep / h,
\* r' = r * (2 - r), shape = 0.5 * (r' + sqrt(r')).  With q = dep * (2h - dep)
\* (= r' * h * h) this is cm * w * k * (q / h + sqrt(q)) / 2, and np.sqrt of a
\* negative r' is NaN, which the products keep.
zanger1(cm, dep, h, k, w) ==
    LET q == dep * (2 * h - dep)
        c == (cm * w * k) \div 1000
        s == (100 * q) \div h + ISqrt(10000 * q)
    IN IF q < 0 THEN NaN ELSE ((c * s) \div 2) \div 1000

zanger(cm, dep, h, k, w) ==
    [i \in 1..Len(dep) |-> zanger1(cm[i], dep[i], h, k, w)]

\* dyn_w: the dynamic water pressure at the samples (x, y).
dyn_w(x, y, h, k, w) ==
    LET slant == cal_slant(x, y)
        depth == [i \in 1..Len(y) |-> h - y[i]]
    IN IF \E i \in 1..Len(slant) : OutOfBounds(zanger_cm, slant[i])
       THEN Raised(RangeError)
       ELSE LET cm_val == [i \in 1..Len(slant) |-> interp_call(zanger_cm, slant[i])]
            IN Returned(zanger(cm_val, depth, h, k, w))

\* The default of stat_w's parameter w: 9.8.
stat_w_default_w == 98

\* stat_w: the static water pressure depth * w at the heights y.
stat_w(y, h, w) == [i \in 1..Len(y) |-> (h - y[i]) * w]

\* The parameters mud() is defined with.
mud_parameters == {"x", "y", "h", "w", "ce"}

\* mud's body: the resultant sqrt(pv^2 + ph^2) of the two components, in
\* 1/100 kN/m2; it returns this one array.
mud_body(x, y, h, w, ce) ==
    LET slant == cal_slant(x, y)
    IN [i \in 1..Len(y) |->
           LET pv == (w * (h - y[i]) * SinDeg(slant[i])) \div 1000
               ph == (ce * w * (h - y[i]) * CosDeg(slant[i])) \div 10000
           IN ISqrt(pv * pv + ph * ph)]

\* A call mud(x, y, **kwargs): Python binds the keywords to mud's parameters
\* before it runs the body, and raises TypeError for a keyword mud does not
\* have.
mud(x, y, kwargs) ==
    IF ~(DOMAIN kwargs \subseteq mud_parameters)
    THEN Raised(MudTypeError)
    ELSE Returned(mud_body(x, y, kwargs.h, kwargs.w, kwargs.ce))

-----------------------------------------------------------------------------
(* buoyancy.py *)

\* The default of buoyancy's parameter offset: 1.1.
buoyancy_default_offset == 11

\* The factor 0.3333 of the section no drain reaches, and 0.2 of the one a
\* drain reaches, in 1/10000.
factor_no_drain == 3333

factor_drain == 2000

\* Wrong buoyancy: the drained section's upstream pressure reduced as in the
\* section without a drain.
buoyancy_reduced_head(hu, hd, length, loc_drain, w, offset) ==
    LET pu == hu * w
        pd == hd * w
        p_up == pd * 100000 + factor_no_drain * offset * (pu - pd)
    IN IF loc_drain = None
       THEN interp1d(<<0, length>>, <<p_up, pd * 100000>>)
       ELSE interp1d(<<0, loc_drain[1], length>>,
                     <<p_up, pd * 100000 + factor_drain * offset * (pu - pd),
                       pd * 100000>>)

\* buoyancy: the uplift pressure along the base as an interpolant over the
\* distance from the upstream end; pressures in 1/1000000 kN/m2.
buoyancy(hu, hd, length, loc_drain, w, offset) ==
    LET pu == hu * w
        pd == hd * w
    IN IF loc_drain = None
       THEN LET p_up == pd * 100000 + factor_no_drain * offset * (pu - pd)
                p_down == pd * 100000
            IN interp1d(<<0, length>>, <<p_up, p_down>>)
       ELSE LET p_drain == pd * 100000 + factor_drain * offset * (pu - pd)
                p_up == pu * 100000
                p_down == pd * 100000
            IN interp1d(<<0, loc_drain[1], length>>, <<p_up, p_drain, p_down>>)

-----------------------------------------------------------------------------
(* dam_cls.py: class Dam *)

\* A method's result: the object after it, and the exception it raised.
Done(self) == [self |-> self, raised |-> NoError]

Fail(self, e) == [self |-> self, raised |-> e]

\* Dam.__init__: the fields of a new Dam.  __slope maps a height of the
\* upstream face to its horizontal offset.
DamInit(a) ==
    [mud            |-> None,
     sta_wat        |-> None,
     dyn_wat        |-> None,
     buoyancy       |-> None,
     water_pressure |-> None,
     name           |-> a.name,
     w0             |-> a.w0,
     w_mud          |-> a.w_mud,
     ce             |-> a.ce,
     x              |-> a.x,
     y              |-> a.y,
     length         |-> a.length,
     loc_drain      |-> a.loc_drain,
     dep_up         |-> a.depth_up,
     dep_down       |-> a.depth_down,
     dep_mud        |-> a.depth_mud,
     slope          |-> interp1d(a.y, a.x),
     k              |-> a.k]

\* Dam.__gen_side_sample: n samples of the face from its first height up to
\* the surface at h.
gen_side_sample(self, h, n) ==
    LET y == linspace(self.y[1], h, n)
    IN IF \E i \in 1..n : OutOfBounds(self.slope, y[i])
       THEN Raised(RangeError)
       ELSE Returned([x |-> [i \in 1..n |-> interp_call(self.slope, y[i])],
                      y |-> y])

\* Wrong __cal_dyn_water: the depth below the surface stored as the position,
\* as DamClass.py's cal_dyn_water does.
cal_dyn_water_depth(self, n) ==
    LET s == gen_side_sample(self, self.dep_up, n)
    IN IF s.raised # NoError THEN Fail(self, s.raised)
       ELSE LET pres == dyn_w(s.value.x, s.value.y, self.dep_up, self.k, self.w0)
            IN IF pres.raised # NoError THEN Fail(self, pres.raised)
               ELSE Done([self EXCEPT !.dyn_wat =
                            <<[i \in 1..n |-> self.dep_up - s.value.y[i]], pres.value>>])

\* Dam.__cal_dyn_water.  (Its plot and its CSV file are written from the
\* arrays computed here and change no field.)
cal_dyn_water(self, n) ==
    LET s == gen_side_sample(self, self.dep_up, n)
    IN IF s.raised # NoError THEN Fail(self, s.raised)
       ELSE LET pres == dyn_w(s.value.x, s.value.y, self.dep_up, self.k, self.w0)
            IN IF pres.raised # NoError THEN Fail(self, pres.raised)
               ELSE Done([self EXCEPT !.dyn_wat = <<s.value.y, pres.value>>])

\* Dam.__cal_buoyancy: the uplift at n evenly spaced distances along the base.
cal_buoyancy(self, n) ==
    LET x == linspace(0, self.length, n)
        g == buoyancy(self.dep_up, self.dep_down, self.length, self.loc_drain,
                      self.w0, buoyancy_default_offset)
    IN IF \E i \in 1..n : OutOfBounds(g, x[i])
       THEN Fail(self, RangeError)
       ELSE Done([self EXCEPT !.buoyancy =
                    <<x, [i \in 1..n |-> interp_call(g, x[i])]>>])

\* Wrong __cal_static_wat: it also clears the dynamic result.
cal_static_wat_clobber(self, n) ==
    LET s == gen_side_sample(self, self.dep_up, n)
    IN IF s.raised # NoError THEN Fail(self, s.raised)
       ELSE Done([self EXCEPT
                    !.sta_wat = <<s.value.y, stat_w(s.value.y, self.dep_up, stat_w_default_w)>>,
                    !.dyn_wat = None])

\* Dam.__cal_static_wat.
cal_static_wat(self, n) ==
    LET s == gen_side_sample(self, self.dep_up, n)
    IN IF s.raised # NoError THEN Fail(self, s.raised)
       ELSE LET p == stat_w(s.value.y, self.dep_up, stat_w_default_w)
            IN Done([self EXCEPT !.sta_wat = <<s.value.y, p>>])

\* Dam.__cal_mud: it calls sp.mud with the keyword mesh_size, and unpacks the
\* result into the two components pres_v, pres_h.
cal_mud(self, n) ==
    LET s == gen_side_sample(self, self.dep_mud, n)
    IN IF s.raised # NoError THEN Fail(self, s.raised)
       ELSE LET p == mud(s.value.x, s.value.y,
                         [h |-> self.dep_mud, w |-> self.w_mud, ce |-> self.ce,
                          mesh_size |-> 10])
            IN IF p.raised # NoError THEN Fail(self, p.raised)
               ELSE IF Len(p.value) # 2
               THEN Fail(self, "ValueError: too many values to unpack (expected 2)")
               ELSE Fail(self, "ValueError: setting an array element with a sequence.")

\* Dam.cal_load: each name of load_names in turn; the first exception ends
\* the call.
RECURSIVE cal_load(_, _, _)
cal_load(self, names, n) ==
    IF names = <<>> THEN Done(self)
    ELSE LET i == Head(names)
             r == IF i = "Dynamic" THEN cal_dyn_water(self, n)
                  ELSE IF i = "Static" THEN cal_static_wat(self, n)
                  ELSE IF i = "Mud" THEN cal_mud(self, n)
                  ELSE IF i = "Buoyancy" THEN cal_buoyancy(self, n)
                  ELSE Fail(self, LoadNamesError)
         IN IF r.raised # NoError THEN r ELSE cal_load(r.self, Tail(names), n)

-----------------------------------------------------------------------------
(* The sections and calls of the model *)

\* The arguments of Dam(...) for a face, an upstream depth, a drain and a
\* unit weight of water.
DamArgs(face, h, d, w) ==
    [name |-> "Kamitsu", x |-> face.x, y |-> face.y, length |-> 6,
     depth_up |-> h, depth_mud |-> 2, loc_drain |-> d, k |-> 14,
     depth_down |-> 0, w0 |-> w, w_mud |-> 100, ce |-> 5]

\* The sections: the sloped face, with a drain; the vertical face, with water
\* at 10.0; the face with its base below the origin, under 2 units of water;
\* the faces whose heights are not strictly monotonic; the overhanging face;
\* and the sloped face with the water above its top.
ArgSet ==
    {DamArgs([x |-> <<0, 2, 2>>, y |-> <<0, 2, 6>>], 4, Some(2), 98),
     DamArgs([x |-> <<0, 0>>, y |-> <<0, 6>>], 4, None, 100),
     DamArgs([x |-> <<0, 2, 2>>, y |-> <<0 - 4, 0, 6>>], 2, None, 98),
     DamArgs([x |-> <<0, 2, 2>>, y |-> <<0, 6, 4>>], 4, None, 98),
     DamArgs([x |-> <<0, 2, 2>>, y |-> <<0, 4, 4>>], 4, None, 98),
     DamArgs([x |-> <<2, 0>>, y |-> <<0, 6>>], 4, None, 98),
     DamArgs([x |-> <<0, 2, 2>>, y |-> <<0, 2, 6>>], 8, None, 98)}

Names == {"Dynamic", "Static", "Mud", "Buoyancy", "Bogus"}

\* The load_names lists: up to two names.
NameLists == {<<>>} \cup {<<a>> : a \in Names} \cup {<<a, b>> : a, b \in Names}

-----------------------------------------------------------------------------
(* The Dam and its calls *)

Init ==
    /\ args \in ArgSet
    /\ dam = None
    /\ load_names = <<>>
    /\ raised = NoError
    /\ calls = 0
    /\ buo_args = None
    /\ f = None

\* dam = Dam(**args)
Construct ==
    /\ dam = None
    /\ dam' = DamInit(args)
    /\ UNCHANGED <<args, load_names, raised, calls, buo_args, f>>

\* dam.cal_load(load_names=names, num=n)
CalLoad(names, n) ==
    /\ dam # None
    /\ calls < MaxCalls
    /\ calls' = calls + 1
    /\ LET r == cal_load(dam, names, n)
       IN /\ dam' = r.self
          /\ raised' = r.raised
    /\ load_names' = names
    /\ UNCHANGED <<args, buo_args, f>>

Next ==
    \/ Construct
    \/ \E names \in NameLists, n \in 2..MaxNum : CalLoad(names, n)

Spec == Init /\ [][Next]_vars

-----------------------------------------------------------------------------
(* buoyancy() called on its own *)

\* The arguments of the call: every depth, length, drain offset (none, or
\* from the upstream end to beyond the downstream end), unit weight and offset.
BuoyancyArgs ==
    {[hu |-> hu, hd |-> hd, length |-> length, loc_drain |-> loc_drain,
      w |-> w, offset |-> offset] :
        hu \in 0..MaxHead, hd \in 0..MaxHead, length \in 1..MaxLength,
        loc_drain \in {None} \cup {Some(a) : a \in 0..(MaxLength + 1)},
        w \in {98, 100}, offset \in {0, 10, 11}}

InitBuoyancy ==
    /\ args = None
    /\ dam = None
    /\ load_names = <<>>
    /\ raised = NoError
    /\ calls = 0
    /\ buo_args \in BuoyancyArgs
    /\ f = None

\* f = buoyancy(**buo_args)
CallBuoyancy ==
    /\ f = None
    /\ f' = buoyancy(buo_args.hu, buo_args.hd, buo_args.length,
                     buo_args.loc_drain, buo_args.w, buo_args.offset)
    /\ UNCHANGED <<args, dam, load_names, raised, calls, buo_args>>

NextBuoyancy == CallBuoyancy

SpecBuoyancy == InitBuoyancy /\ [][NextBuoyancy]_vars

-----------------------------------------------------------------------------
(* Properties of buoyancy(), under SpecBuoyancy *)

\* The heads at the two ends, in the unit of a buoyancy pressure.
Pu == buo_args.hu * buo_args.w * 100000

Pd == buo_args.hd * buo_args.w * 100000

\* C1: without a drain (loc_drain is None) the profile buoyancy() builds has
\* exactly the 2 control points 0 and L, its pressure at 0 is
\* pd + (1/3) * offset * (pu - pd) and its pressure at L is pd.  (Stated times
\* three: 3 * p(0) = 3 * pd + offset * (pu - pd).)
C1_NoDrainOneThird ==
    (f # None /\ buo_args.loc_drain = None) =>
        /\ f.x = <<0, buo_args.length>>
        /\ Len(f.y) = 2
        /\ 3 * f.y[1] = 3 * Pd + 10000 * buo_args.offset
                                  * (buo_args.hu * buo_args.w - buo_args.hd * buo_args.w)
        /\ f.y[2] = Pd

\* The value at v lies on the straight line through the control points j and
\* j + 1 of g, up to the rounding down of the division.
OnSegment(g, j, v) ==
    LET run == g.x[j + 1] - g.x[j]
        rise == g.y[j + 1] - g.y[j]
        val == interp_call(g, v) - g.y[j]
    IN /\ val * run <= (v - g.x[j]) * rise
       /\ (v - g.x[j]) * rise < (val + 1) * run

\* C2: the regime depends only on whether a drain offset is given (2 control
\* points without one, 3 with one), and for a drain at a with 0 < a < L the
\* profile has the 3 control points 0, a, L with the pressures pu,
\* pd + 0.2 * offset * (pu - pd) and pd, and is linear between adjacent
\* control points.
C2_DrainProfile ==
    f # None =>
        /\ Len(f.x) = (IF buo_args.loc_drain = None THEN 2 ELSE 3)
        /\ Len(f.y) = Len(f.x)
        /\ (buo_args.loc_drain # None
              /\ 0 < buo_args.loc_drain[1]
              /\ buo_args.loc_drain[1] < buo_args.length) =>
             /\ f.x = <<0, buo_args.loc_drain[1], buo_args.length>>
             /\ f.y[1] = Pu
             /\ 5 * f.y[2] = 5 * Pd + 10000 * buo_args.offset
                                       * (buo_args.hu * buo_args.w - buo_args.hd * buo_args.w)
             /\ f.y[3] = Pd
             /\ \A j \in 1..2 : \A v \in f.x[j]..f.x[j + 1] :
                    /\ ~OutOfBounds(f, v)
                    /\ OnSegment(f, j, v)
             /\ \A j \in 1..3 : interp_call(f, f.x[j]) = f.y[j]

\* A drained profile with different heads at its ends and a drain that is not
\* midway has been built.
C2_Witness ==
    /\ f # None
    /\ buo_args.loc_drain = Some(1)
    /\ buo_args.length = 4
    /\ buo_args.hu = 3
    /\ buo_args.hd = 1
    /\ buo_args.offset = 11
    /\ f.y[1] > f.y[2]
    /\ f.y[2] > f.y[3]

-----------------------------------------------------------------------------
(* Properties of the Dam, under Spec *)

Kinds == {"Dynamic", "Static", "Mud", "Buoyancy"}

Range(s) == {s[i] : i \in 1..Len(s)}

StrictlyIncreasing(s) == \A i \in 1..(Len(s) - 1) : s[i] < s[i + 1]

StrictlyMonotonic(s) ==
    StrictlyIncreasing(s) \/ \A i \in 1..(Len(s) - 1) : s[i] > s[i + 1]

\* A section every load of which is defined: the heights of the face rise
\* from the base at 0, the face does not overhang, and the water and the mud
\* stand within the face's heights.
ValidSection(d) ==
    /\ StrictlyIncreasing(d.y)
    /\ d.y[1] = 0
    /\ \A i \in 1..(Len(d.x) - 1) : d.x[i] <= d.x[i + 1]
    /\ 0 < d.dep_up /\ d.dep_up <= Last(d.y)
    /\ 0 < d.dep_mud /\ d.dep_mud <= Last(d.y)

\* C3: computing the Mud kind for a valid section stores the heights and two
\* component profiles over them: at the sample of depth d = h - height and
\* slope angle theta the vertical one is -(w * d * sin(theta)) and the
\* horizontal one is ce * w * d * cos(theta) (0 and ce * w * d on a vertical
\* face).  In 1/100000 and 1/1000000 kN/m2.
C3_MudComponents ==
    (dam # None /\ ValidSection(dam) /\ load_names = <<"Mud">>) =>
        /\ dam.mud # None
        /\ Len(dam.mud) = 3
        /\ LET y == dam.mud[1]
               x == [i \in 1..Len(y) |-> interp_call(dam.slope, y[i])]
               slant == cal_slant(x, y)
           IN \A i \in 1..Len(y) :
                  /\ dam.mud[2][i] =
                         0 - (dam.w_mud * (dam.dep_mud - y[i]) * SinDeg(slant[i]))
                  /\ dam.mud[3][i] =
                         dam.ce * dam.w_mud * (dam.dep_mud - y[i]) * CosDeg(slant[i])

\* C4 as claimed: the positions of the stored Dynamic profile are depths below
\* the surface: the sample at the surface (the last) has position 0 and the
\* sample at the face's first height y0 has position h - y0.
C4_DynamicPositionIsDepth ==
    (dam # None /\ dam.dyn_wat # None) =>
        LET pos == dam.dyn_wat[1]
        IN /\ Last(pos) = 0
           /\ pos[1] = dam.dep_up - dam.y[1]

\* C4 as amended: the positions of the stored Dynamic profile are the heights
\* of the samples: n of them, evenly spaced (up to the rounding down of the
\* division) from the face's first height y0, the position of the first
\* sample, to h, the position of the sample at the surface, whose pressure
\* is 0.
C4_DynamicPositionIsHeight ==
    (dam # None /\ dam.dyn_wat # None) =>
        LET pos == dam.dyn_wat[1]
            n == Len(pos)
            y0 == dam.y[1]
            h == dam.dep_up
        IN /\ n >= 2
           /\ Len(dam.dyn_wat) = 2
           /\ Len(dam.dyn_wat[2]) = n
           /\ pos[1] = y0
           /\ pos[n] = h
           /\ dam.dyn_wat[2][n] = 0
           /\ \A i \in 1..n :
                  /\ pos[i] * (n - 1) <= y0 * (n - 1) + (i - 1) * (h - y0)
                  /\ y0 * (n - 1) + (i - 1) * (h - y0) < (pos[i] + 1) * (n - 1)

\* A Dynamic profile of three samples is stored for a face that starts at
\* height 0 under 4 units of water: its positions are 0, 2, 4.
C4_Witness ==
    /\ dam # None
    /\ dam.dyn_wat # None
    /\ dam.y[1] = 0
    /\ dam.dep_up = 4
    /\ dam.dyn_wat[1] = <<0, 2, 4>>
    /\ dam.dyn_wat[2][1] > 0

\* C5: every stored Static pressure is (h - height) * w0, with the Dam's own
\* unit weight of water w0.
C5_StaticUsesW0 ==
    (dam # None /\ dam.sta_wat # None) =>
        \A i \in 1..Len(dam.sta_wat[1]) :
            dam.sta_wat[2][i] = (dam.dep_up - dam.sta_wat[1][i]) * dam.w0

\* C6: a cal_load call whose load_names holds a name that is none of the four
\* kinds ends in the ValueError that lists the four kinds.  (Stated for the
\* valid sections, where no load is out of its range.)
C6_UnknownNameRaisesLoadNamesError ==
    (dam # None /\ ValidSection(dam) /\ calls > 0
       /\ \E i \in 1..Len(load_names) : load_names[i] \notin Kinds) =>
        raised = LoadNamesError

\* C7: when the depth of some sample exceeds the water depth h, the Dynamic
\* computation fails and stores no Dynamic profile.
C7_DepthBeyondHFails ==
    (dam # None /\ dam.dyn_wat # None) =>
        \A i \in 1..Len(dam.dyn_wat[1]) :
            dam.dep_up - dam.dyn_wat[1][i] <= dam.dep_up

\* C8: a cal_load call that fails leaves every result slot as it was before
\* the call.  (Stated for the failure of the claim's example: the ValueError
\* for a name that is none of the four kinds.)
C8_NoPartialFailure ==
    [][(calls' # calls /\ raised' = LoadNamesError) =>
          /\ dam'.dyn_wat = dam.dyn_wat
          /\ dam'.sta_wat = dam.sta_wat
          /\ dam'.mud = dam.mud
          /\ dam'.buoyancy = dam.buoyancy]_vars

\* C9: a Dam whose heights y are not strictly monotonic is never constructed.
C9_NonMonotonicRejected ==
    dam # None => StrictlyMonotonic(args.y)

\* The section parameters of a Dam.
Parameters(d) ==
    <<d.x, d.y, d.length, d.loc_drain, d.dep_up, d.dep_down, d.dep_mud, d.k,
      d.w0, d.w_mud, d.ce>>

\* C10: the section parameters of the Dam keep their values of construction,
\* and a cal_load call changes the result slot of no kind that is not among
\* its load_names.
C10_Frame ==
    [][/\ dam' # None =>
            Parameters(dam') =
                <<args.x, args.y, args.length, args.loc_drain, args.depth_up,
                  args.depth_down, args.depth_mud, args.k, args.w0, args.w_mud,
                  args.ce>>
       /\ dam # None =>
            /\ Parameters(dam') = Parameters(dam)
            /\ "Dynamic" \notin Range(load_names') => dam'.dyn_wat = dam.dyn_wat
            /\ "Static" \notin Range(load_names') => dam'.sta_wat = dam.sta_wat
            /\ "Mud" \notin Range(load_names') => dam'.mud = dam.mud
            /\ "Buoyancy" \notin Range(load_names') => dam'.buoyancy = dam.buoyancy]_vars

\* A second call, for the Static kind alone, has run on a Dam that held a
\* Dynamic and a Buoyancy profile: it holds all three.
C10_Witness ==
    /\ dam # None
    /\ calls = 2
    /\ load_names = <<"Static">>
    /\ raised = NoError
    /\ dam.sta_wat # None
    /\ dam.dyn_wat # None
    /\ dam.buoyancy # None

=============================================================================
